---- MODULE Spec2Model ----
(***************************************************************************)
(* Model of firmware/application/radio.cpp (PortaPack / HackRF): the front *)
(* end controller that sequences the RF path, the first mixer (RFFC507x),  *)
(* the second IF transceiver (MAX2839), the baseband codec (MAX5864) and   *)
(* the baseband CPLD inversion bit.                                        *)
(*                                                                         *)
(* Every controller function is an operator from a state record to a state *)
(* record, written statement by statement; an action applies one public    *)
(* function to the current state.  The record field "log" collects, for    *)
(* the running call, the controller functions entered ("radio.*") and the  *)
(* leaf calls made, in program order.                                      *)
(***************************************************************************)
EXTENDS Integers, Sequences, FiniteSets, TLC

\* ------------------------------------------------------------------ bounds
\* Number of public calls explored after init().
MaxCalls == 3

\* ------------------------------------------------------------------ inputs
\* Frequencies offered to the controller: 0 is below every band, 1 is in the
\* low band, 2 in the mid band, 3 and 4 in the high band; the plan for 4 asks
\* the second IF for an LO outside its range.
Frequencies == 0..4
\* Gains (LNA, VGA, TX VGA) offered to the controller.
Gains == {0, 1}
\* baseband sampling rates and filter bandwidths offered to the controller
Rates == {8, 20}
Bandwidths == {5, 10}
Directions == {"Receive", "Transmit"}

XOR(a, b) == a # b

\* ------------------------------------------------------- tuning planner
\* tuning::config::create(frequency): the low band mixes up through the
\* first LO with spectral inversion, the mid band bypasses the first mixer,
\* the high band mixes down; everything else is unsupported.
create(frequency) ==
    CASE frequency = 1 ->
           [first_lo_frequency  |-> 4, second_lo_frequency |-> 3,
            rf_path_band |-> "Low", mixer_invert |-> TRUE]
      [] frequency = 2 ->
           [first_lo_frequency  |-> 0, second_lo_frequency |-> 2,
            rf_path_band |-> "Mid", mixer_invert |-> FALSE]
      [] frequency = 3 ->
           [first_lo_frequency  |-> 1, second_lo_frequency |-> 2,
            rf_path_band |-> "High", mixer_invert |-> FALSE]
      [] frequency = 4 ->
           [first_lo_frequency  |-> 1, second_lo_frequency |-> 5,
            rf_path_band |-> "High", mixer_invert |-> FALSE]
      [] OTHER ->
           [first_lo_frequency  |-> 0, second_lo_frequency |-> 0,
            rf_path_band |-> "Mid", mixer_invert |-> FALSE]

\* tuning::config::Config::is_valid()
is_valid(tuning_config) == tuning_config.second_lo_frequency > 0

\* ------------------------------------------------------------------ state
VARIABLES
    direction,          \* radio.cpp:95
    baseband_invert,    \* radio.cpp:96
    mixer_invert,       \* radio.cpp:97
    rf_path,            \* [band, direction, rf_amp]
    first_if,           \* [enabled, frequency]
    second_if,          \* [mode, frequency, lna_gain, vga_gain, tx_vga_gain, lpf_rf_bandwidth]
    baseband_codec,     \* [mode]
    baseband_cpld,      \* [invert]
    gpio_not_ant_pwr,   \* antenna bias MOSFET gate: 0 = bias on, 1 = bias off
    sampling_frequency, \* portapack::clock_manager
    initialized,        \* init() has run
    calls,              \* public calls made since init()
    last_op,            \* public function that ran last
    last_arg,           \* its argument
    prev_op,            \* public function that ran before it
    prev_arg,           \* its argument
    ret,                \* its result (TRUE for the void functions)
    log,                \* calls made by that function, in order
    invert_assigned,    \* some call has assigned mixer_invert or baseband_invert
    last_plan_invert,   \* mixer_invert of the most recent valid plan (FALSE if none)
    mixer_writer,       \* the most recent of disable() and valid-plan tuning
    modes_written       \* set_direction() or disable() has run

vars == <<direction, baseband_invert, mixer_invert, rf_path, first_if, second_if,
          baseband_codec, baseband_cpld, gpio_not_ant_pwr, sampling_frequency,
          initialized, calls, last_op, last_arg, prev_op, prev_arg, ret, log, invert_assigned,
          last_plan_invert, mixer_writer, modes_written>>

\* The program state as one record, so that the controller functions compose.
St ==
    [direction |-> direction, baseband_invert |-> baseband_invert,
     mixer_invert |-> mixer_invert, rf_path |-> rf_path, first_if |-> first_if,
     second_if |-> second_if, baseband_codec |-> baseband_codec,
     baseband_cpld |-> baseband_cpld, gpio_not_ant_pwr |-> gpio_not_ant_pwr,
     sampling_frequency |-> sampling_frequency, ret |-> ret, log |-> log,
     invert_assigned |-> invert_assigned, last_plan_invert |-> last_plan_invert]

\* A call recorded in the log of the running public call.
Called(s, name, arg) == [s EXCEPT !.log = Append(@, <<name, arg>>)]

\* ------------------------------------------------------------ leaf stages
rf_path_init(s) ==
    [Called(s, "rf_path.init", "") EXCEPT
        !.rf_path = [band |-> "Mid", direction |-> "Receive", rf_amp |-> FALSE]]
rf_path_set_direction(s, d) ==
    [Called(s, "rf_path.set_direction", d) EXCEPT !.rf_path.direction = d]
rf_path_set_band(s, band) ==
    [Called(s, "rf_path.set_band", band) EXCEPT !.rf_path.band = band]
rf_path_set_rf_amp(s, rf_amp) ==
    [Called(s, "rf_path.set_rf_amp", rf_amp) EXCEPT !.rf_path.rf_amp = rf_amp]

first_if_init(s) ==
    [Called(s, "first_if.init", "") EXCEPT
        !.first_if = [enabled |-> FALSE, frequency |-> 0]]
first_if_disable(s) ==
    [Called(s, "first_if.disable", "") EXCEPT !.first_if.enabled = FALSE]
first_if_enable(s) ==
    [Called(s, "first_if.enable", "") EXCEPT !.first_if.enabled = TRUE]
first_if_set_frequency(s, f) ==
    [Called(s, "first_if.set_frequency", f) EXCEPT !.first_if.frequency = f]

\* LO range of the second IF: a frequency outside it is rejected.
SecondLoMin == 2
SecondLoMax == 3
second_if_init(s) ==
    [Called(s, "second_if.init", "") EXCEPT
        !.second_if = [mode |-> "Shutdown", frequency |-> 0, lna_gain |-> 0,
                       vga_gain |-> 0, tx_vga_gain |-> 0,
                       lpf_rf_bandwidth |-> 5]]
second_if_set_mode(s, mode) ==
    [Called(s, "second_if.set_mode", mode) EXCEPT !.second_if.mode = mode]
lo_in_range(lo) == lo >= SecondLoMin /\ lo <= SecondLoMax
second_if_set_frequency(s, lo) ==
    IF lo_in_range(lo)
    THEN [Called(s, "second_if.set_frequency", lo) EXCEPT
            !.second_if.frequency = lo, !.ret = TRUE]
    ELSE [Called(s, "second_if.set_frequency", lo) EXCEPT !.ret = FALSE]
second_if_set_lna_gain(s, db) ==
    [Called(s, "second_if.set_lna_gain", db) EXCEPT !.second_if.lna_gain = db]
second_if_set_vga_gain(s, db) ==
    [Called(s, "second_if.set_vga_gain", db) EXCEPT !.second_if.vga_gain = db]
second_if_set_tx_vga_gain(s, db) ==
    [Called(s, "second_if.set_tx_vga_gain", db) EXCEPT !.second_if.tx_vga_gain = db]
second_if_set_lpf_rf_bandwidth(s, bw) ==
    [Called(s, "second_if.set_lpf_rf_bandwidth", bw) EXCEPT
        !.second_if.lpf_rf_bandwidth = bw]

baseband_codec_init(s) ==
    [Called(s, "baseband_codec.init", "") EXCEPT
        !.baseband_codec = [mode |-> "Shutdown"]]
baseband_codec_set_mode(s, mode) ==
    [Called(s, "baseband_codec.set_mode", mode) EXCEPT !.baseband_codec.mode = mode]

\* baseband_cpld.init() does not say which inversion it leaves: invert is
\* either value afterwards.
baseband_cpld_init(s, invert) ==
    [Called(s, "baseband_cpld.init", "") EXCEPT !.baseband_cpld.invert = invert]
baseband_cpld_set_invert(s, invert) ==
    [Called(s, "baseband_cpld.set_invert", invert) EXCEPT
        !.baseband_cpld.invert = invert]

gpio_not_ant_pwr_write(s, v) ==
    [Called(s, "gpio_not_ant_pwr.write", v) EXCEPT !.gpio_not_ant_pwr = v]
clock_manager_set_sampling_frequency(s, rate) ==
    [Called(s, "clock_manager.set_sampling_frequency", rate) EXCEPT
        !.sampling_frequency = rate]


\* ------------------------------------------------------------- controller
\* radio.cpp:99-107
init(s, cpld_invert) ==
    LET s0 == Called(s, "radio.init", "")
        s1 == gpio_not_ant_pwr_write(s0, 1)
        s2 == Called(s1, "gpio_not_ant_pwr.output", "")
        s3 == rf_path_init(s2)
        s4 == first_if_init(s3)
        s5 == second_if_init(s4)
        s6 == baseband_codec_init(s5)
    IN  baseband_cpld_init(s6, cpld_invert)

\* set_direction() writing the inversion bit before it recomputes
\* baseband_invert
set_direction_stale_polarity(s, new_direction) ==
    LET s0 == Called(s, "radio.set_direction", new_direction)
        s1 == [s0 EXCEPT !.direction = new_direction]
        s2 == baseband_cpld_set_invert(s1, XOR(s1.mixer_invert, s1.baseband_invert))
        s3 == [s2 EXCEPT !.baseband_invert = (s2.direction = "Receive"),
                         !.invert_assigned = TRUE]
        s4 == second_if_set_mode(s3,
                IF s3.direction = "Transmit" THEN "Transmit" ELSE "Receive")
        s5 == rf_path_set_direction(s4, s4.direction)
    IN  baseband_codec_set_mode(s5,
            IF s5.direction = "Transmit" THEN "Transmit" ELSE "Receive")

\* set_direction() writing baseband_invert alone as the inversion bit
set_direction_ignores_mixer(s, new_direction) ==
    LET s0 == Called(s, "radio.set_direction", new_direction)
        s1 == [s0 EXCEPT !.direction = new_direction]
        s2 == [s1 EXCEPT !.baseband_invert = (s1.direction = "Receive"),
                         !.invert_assigned = TRUE]
        s3 == baseband_cpld_set_invert(s2, s2.baseband_invert)
        s4 == second_if_set_mode(s3,
                IF s3.direction = "Transmit" THEN "Transmit" ELSE "Receive")
        s5 == rf_path_set_direction(s4, s4.direction)
    IN  baseband_codec_set_mode(s5,
            IF s5.direction = "Transmit" THEN "Transmit" ELSE "Receive")

\* set_direction() that leaves the baseband codec mode alone
set_direction_skips_codec(s, new_direction) ==
    LET s0 == Called(s, "radio.set_direction", new_direction)
        s1 == [s0 EXCEPT !.direction = new_direction]
        s2 == [s1 EXCEPT !.baseband_invert = (s1.direction = "Receive"),
                         !.invert_assigned = TRUE]
        s3 == baseband_cpld_set_invert(s2, XOR(s2.mixer_invert, s2.baseband_invert))
        s4 == second_if_set_mode(s3,
                IF s3.direction = "Transmit" THEN "Transmit" ELSE "Receive")
    IN  rf_path_set_direction(s4, s4.direction)

\* set_direction() deriving baseband_invert before it stores the new
\* direction
set_direction_invert_from_old(s, new_direction) ==
    LET s0 == Called(s, "radio.set_direction", new_direction)
        s1 == [s0 EXCEPT !.baseband_invert = (s0.direction = "Receive"),
                         !.invert_assigned = TRUE]
        s2 == [s1 EXCEPT !.direction = new_direction]
        s3 == baseband_cpld_set_invert(s2, XOR(s2.mixer_invert, s2.baseband_invert))
        s4 == second_if_set_mode(s3,
                IF s3.direction = "Transmit" THEN "Transmit" ELSE "Receive")
        s5 == rf_path_set_direction(s4, s4.direction)
    IN  baseband_codec_set_mode(s5,
            IF s5.direction = "Transmit" THEN "Transmit" ELSE "Receive")

\* set_direction() returning early when the direction does not change
set_direction_early_exit(s, new_direction) ==
    LET s0 == Called(s, "radio.set_direction", new_direction)
        s1 == [s0 EXCEPT !.direction = new_direction]
        s2 == [s1 EXCEPT !.baseband_invert = (s1.direction = "Receive"),
                         !.invert_assigned = TRUE]
        s3 == baseband_cpld_set_invert(s2, XOR(s2.mixer_invert, s2.baseband_invert))
        s4 == second_if_set_mode(s3,
                IF s3.direction = "Transmit" THEN "Transmit" ELSE "Receive")
        s5 == rf_path_set_direction(s4, s4.direction)
    IN  IF s.direction = new_direction
        THEN s0
        ELSE baseband_codec_set_mode(s5,
                IF s5.direction = "Transmit" THEN "Transmit" ELSE "Receive")

\* set_direction() that also wakes the first mixer up
set_direction_enables_mixer(s, new_direction) ==
    LET s0 == Called(s, "radio.set_direction", new_direction)
        s1 == [s0 EXCEPT !.direction = new_direction]
        s2 == [s1 EXCEPT !.baseband_invert = (s1.direction = "Receive"),
                         !.invert_assigned = TRUE]
        s3 == baseband_cpld_set_invert(s2, XOR(s2.mixer_invert, s2.baseband_invert))
        s4 == second_if_set_mode(s3,
                IF s3.direction = "Transmit" THEN "Transmit" ELSE "Receive")
        s5 == rf_path_set_direction(s4, s4.direction)
        s6 == baseband_codec_set_mode(s5,
                IF s5.direction = "Transmit" THEN "Transmit" ELSE "Receive")
    IN  first_if_enable(s6)

\* radio.cpp:109-128
set_direction(s, new_direction) ==
    LET s0 == Called(s, "radio.set_direction", new_direction)
        s1 == [s0 EXCEPT !.direction = new_direction]
        s2 == [s1 EXCEPT !.baseband_invert = (s1.direction = "Receive"),
                         !.invert_assigned = TRUE]
        s3 == baseband_cpld_set_invert(s2, XOR(s2.mixer_invert, s2.baseband_invert))
        s4 == second_if_set_mode(s3,
                IF s3.direction = "Transmit" THEN "Transmit" ELSE "Receive")
        s5 == rf_path_set_direction(s4, s4.direction)
    IN  baseband_codec_set_mode(s5,
            IF s5.direction = "Transmit" THEN "Transmit" ELSE "Receive")

\* set_tuning_frequency() with one statement misplaced, dropped or added:
\*   "disable_before_check"  first_if.disable() hoisted above the validity test
\*   "no_disable"            first_if.disable() dropped
\*   "disable_on_failure"    first mixer disabled again when the second IF refuses
\*   "returns_true"          a valid plan always reports success
\*   "invert_before_check"   mixer_invert assigned above the validity test
\*   "enable_before_frequency"  first_if.enable() before first_if.set_frequency()
\*   "return_on_failure"     return false as soon as the second IF refuses
tuning_fault(s, frequency, fault) ==
    LET s0 == Called(s, "radio.set_tuning_frequency", frequency)
        tuning_config == create(frequency)
        sd == CASE fault = "disable_before_check" -> first_if_disable(s0)
                [] fault = "invert_before_check" ->
                     [s0 EXCEPT !.mixer_invert = tuning_config.mixer_invert]
                [] OTHER -> s0
    IN  IF is_valid(tuning_config)
        THEN LET s1 == IF fault \in {"disable_before_check", "no_disable"}
                       THEN sd ELSE first_if_disable(sd)
                 s2 == CASE tuning_config.first_lo_frequency = 0 -> s1
                         [] fault = "enable_before_frequency" ->
                              first_if_set_frequency(first_if_enable(s1),
                                  tuning_config.first_lo_frequency)
                         [] OTHER ->
                              first_if_enable(first_if_set_frequency(s1,
                                  tuning_config.first_lo_frequency))
                 s3 == second_if_set_frequency(s2, tuning_config.second_lo_frequency)
                 result_second_if == s3.ret
                 sf == IF fault = "disable_on_failure" /\ ~result_second_if
                       THEN first_if_disable(s3) ELSE s3
                 s4 == rf_path_set_band(sf, tuning_config.rf_path_band)
                 s5 == [s4 EXCEPT !.mixer_invert = tuning_config.mixer_invert,
                                  !.invert_assigned = TRUE,
                                  !.last_plan_invert = tuning_config.mixer_invert]
                 s6 == baseband_cpld_set_invert(s5,
                          XOR(s5.mixer_invert, s5.baseband_invert))
             IN  IF fault = "return_on_failure" /\ ~result_second_if
                 THEN s3
                 ELSE [s6 EXCEPT !.ret = IF fault = "returns_true" THEN TRUE
                                         ELSE result_second_if]
        ELSE [sd EXCEPT !.ret = FALSE]

set_tuning_frequency_disable_before_check(s, frequency) ==
    tuning_fault(s, frequency, "disable_before_check")

set_tuning_frequency_no_disable(s, frequency) ==
    tuning_fault(s, frequency, "no_disable")

set_tuning_frequency_disable_on_failure(s, frequency) ==
    tuning_fault(s, frequency, "disable_on_failure")

set_tuning_frequency_returns_true(s, frequency) ==
    tuning_fault(s, frequency, "returns_true")

set_tuning_frequency_invert_before_check(s, frequency) ==
    tuning_fault(s, frequency, "invert_before_check")

set_tuning_frequency_enable_before_frequency(s, frequency) ==
    tuning_fault(s, frequency, "enable_before_frequency")

set_tuning_frequency_return_on_failure(s, frequency) ==
    tuning_fault(s, frequency, "return_on_failure")

\* radio.cpp:130-150; the result is left in the field ret
set_tuning_frequency(s, frequency) ==
    LET s0 == Called(s, "radio.set_tuning_frequency", frequency)
        tuning_config == create(frequency)
    IN  IF is_valid(tuning_config)
        THEN LET s1 == first_if_disable(s0)
                 s2 == IF tuning_config.first_lo_frequency # 0
                       THEN first_if_enable(
                              first_if_set_frequency(s1, tuning_config.first_lo_frequency))
                       ELSE s1
                 s3 == second_if_set_frequency(s2, tuning_config.second_lo_frequency)
                 result_second_if == s3.ret
                 s4 == rf_path_set_band(s3, tuning_config.rf_path_band)
                 s5 == [s4 EXCEPT !.mixer_invert = tuning_config.mixer_invert,
                                  !.invert_assigned = TRUE,
                                  !.last_plan_invert = tuning_config.mixer_invert]
                 s6 == baseband_cpld_set_invert(s5,
                          XOR(s5.mixer_invert, s5.baseband_invert))
             IN  [s6 EXCEPT !.ret = result_second_if]
        ELSE [s0 EXCEPT !.ret = FALSE]

\* radio.cpp:152-154
set_rf_amp(s, rf_amp) ==
    rf_path_set_rf_amp(Called(s, "radio.set_rf_amp", rf_amp), rf_amp)

\* radio.cpp:156-158
set_lna_gain(s, db) ==
    second_if_set_lna_gain(Called(s, "radio.set_lna_gain", db), db)

\* radio.cpp:160-162
set_vga_gain(s, db) ==
    second_if_set_vga_gain(Called(s, "radio.set_vga_gain", db), db)

\* set_tx_gain() passing the gain to the receive VGA (a copy of set_vga_gain)
set_tx_gain_sets_vga(s, db) ==
    second_if_set_vga_gain(Called(s, "radio.set_tx_gain", db), db)

\* radio.cpp:164-166
set_tx_gain(s, db) ==
    second_if_set_tx_vga_gain(Called(s, "radio.set_tx_gain", db), db)

\* radio.cpp:168-170
set_baseband_filter_bandwidth(s, bandwidth_minimum) ==
    second_if_set_lpf_rf_bandwidth(
        Called(s, "radio.set_baseband_filter_bandwidth", bandwidth_minimum),
        bandwidth_minimum)

\* radio.cpp:172-174
set_baseband_rate(s, rate) ==
    clock_manager_set_sampling_frequency(
        Called(s, "radio.set_baseband_rate", rate), rate)

\* radio.cpp:176-179
set_antenna_bias(s, on) ==
    gpio_not_ant_pwr_write(Called(s, "radio.set_antenna_bias", on),
                           IF on THEN 0 ELSE 1)

\* disable() that forgets the first mixer
disable_keeps_mixer(s) ==
    LET s0 == Called(s, "radio.disable", "")
        s1 == set_antenna_bias(s0, FALSE)
        s2 == baseband_codec_set_mode(s1, "Shutdown")
        s3 == second_if_set_mode(s2, "Standby")
    IN  set_rf_amp(s3, FALSE)

\* disable() quiescing the first mixer before the codec and the second IF
disable_mixer_first(s) ==
    LET s0 == Called(s, "radio.disable", "")
        s1 == set_antenna_bias(s0, FALSE)
        s2 == first_if_disable(s1)
        s3 == baseband_codec_set_mode(s2, "Shutdown")
        s4 == second_if_set_mode(s3, "Standby")
    IN  set_rf_amp(s4, FALSE)

\* disable() that leaves the baseband codec running
disable_keeps_codec(s) ==
    LET s0 == Called(s, "radio.disable", "")
        s1 == set_antenna_bias(s0, FALSE)
        s2 == second_if_set_mode(s1, "Standby")
        s3 == first_if_disable(s2)
    IN  set_rf_amp(s3, FALSE)

\* radio.cpp:181-187
disable(s) ==
    LET s0 == Called(s, "radio.disable", "")
        s1 == set_antenna_bias(s0, FALSE)
        s2 == baseband_codec_set_mode(s1, "Shutdown")
        s3 == second_if_set_mode(s2, "Standby")
        s4 == first_if_disable(s3)
    IN  set_rf_amp(s4, FALSE)

\* configure() applying the direction first instead of last
configure_direction_first(s, configuration) ==
    LET s0 == Called(s, "radio.configure", configuration)
        s1 == set_direction(s0, configuration.direction)
        s2 == set_tuning_frequency(s1, configuration.tuning_frequency)
        s3 == set_rf_amp(s2, configuration.rf_amp)
        s4 == set_lna_gain(s3, configuration.lna_gain)
        s5 == set_vga_gain(s4, configuration.vga_gain)
        s6 == set_baseband_rate(s5, configuration.baseband_rate)
    IN  set_baseband_filter_bandwidth(s6, configuration.baseband_filter_bandwidth)

\* configure() giving up when the tuning step reports failure
configure_stops_on_failure(s, configuration) ==
    LET s0 == Called(s, "radio.configure", configuration)
        s1 == set_tuning_frequency(s0, configuration.tuning_frequency)
        s2 == set_rf_amp(s1, configuration.rf_amp)
        s3 == set_lna_gain(s2, configuration.lna_gain)
        s4 == set_vga_gain(s3, configuration.vga_gain)
        s5 == set_baseband_rate(s4, configuration.baseband_rate)
        s6 == set_baseband_filter_bandwidth(s5, configuration.baseband_filter_bandwidth)
    IN  IF s1.ret THEN set_direction(s6, configuration.direction) ELSE s1

\* radio.cpp:193-201; the result of the tuning step is dropped
configure(s, configuration) ==
    LET s0 == Called(s, "radio.configure", configuration)
        s1 == set_tuning_frequency(s0, configuration.tuning_frequency)
        s2 == set_rf_amp(s1, configuration.rf_amp)
        s3 == set_lna_gain(s2, configuration.lna_gain)
        s4 == set_vga_gain(s3, configuration.vga_gain)
        s5 == set_baseband_rate(s4, configuration.baseband_rate)
        s6 == set_baseband_filter_bandwidth(s5, configuration.baseband_filter_bandwidth)
    IN  set_direction(s6, configuration.direction)

\* radio.cpp:189-191
enable(s, configuration) ==
    configure(Called(s, "radio.enable", configuration), configuration)

\* ---------------------------------------------------------------- actions
\* Configurations offered to configure() and enable().
\* One configuration per frequency and direction: the receive profile turns the
\* RF amplifier on with LNA gain 1 at rate 20, the transmit profile turns it off
\* with VGA gain 1 at rate 8.
Configuration(f, d) ==
    [tuning_frequency |-> f, rf_amp |-> (d = "Receive"),
     lna_gain |-> IF d = "Receive" THEN 1 ELSE 0,
     vga_gain |-> IF d = "Receive" THEN 0 ELSE 1,
     baseband_rate |-> IF d = "Receive" THEN 20 ELSE 8,
     baseband_filter_bandwidth |-> IF d = "Receive" THEN 5 ELSE 10,
     direction |-> d]
Configurations == {Configuration(f, d) : f \in Frequencies, d \in Directions}

\* State after static construction (radio.cpp:89-97), before init().
Init ==
    /\ direction = "Receive"
    /\ baseband_invert = FALSE
    /\ mixer_invert = FALSE
    /\ rf_path = [band |-> "Mid", direction |-> "Receive", rf_amp |-> FALSE]
    /\ first_if = [enabled |-> FALSE, frequency |-> 0]
    /\ second_if = [mode |-> "Shutdown", frequency |-> 0, lna_gain |-> 0,
                    vga_gain |-> 0, tx_vga_gain |-> 0, lpf_rf_bandwidth |-> 5]
    /\ baseband_codec = [mode |-> "Shutdown"]
    /\ baseband_cpld \in [invert : BOOLEAN]
    /\ gpio_not_ant_pwr \in {0, 1}
    /\ sampling_frequency = 8
    /\ initialized = FALSE
    /\ calls = 0
    /\ last_op = "none"
    /\ last_arg = ""
    /\ prev_op = "none"
    /\ prev_arg = ""
    /\ ret = TRUE
    /\ log = <<>>
    /\ invert_assigned = FALSE
    /\ last_plan_invert = FALSE
    /\ mixer_writer = "none"
    /\ modes_written = FALSE

\* The state at the start of a call: the log of the previous call is dropped.
Entry == [St EXCEPT !.log = <<>>, !.ret = TRUE]

\* Which of disable() and a tuning step with a valid plan the call op(arg)
\* ran, and whether that plan has a first LO; "none" if it ran neither.
MixerWriter(op, arg) ==
    LET f == IF op = "set_tuning_frequency" THEN arg ELSE arg.tuning_frequency
    IN  CASE op = "disable" -> "disable"
          [] op \in {"set_tuning_frequency", "configure", "enable"}
                /\ is_valid(create(f)) ->
               IF create(f).first_lo_frequency # 0
               THEN "tuned_with_first_lo" ELSE "tuned_without_first_lo"
          [] OTHER -> "none"

\* The call op(arg) returned leaving state t.
Return(t, op, arg) ==
    /\ direction' = t.direction
    /\ baseband_invert' = t.baseband_invert
    /\ mixer_invert' = t.mixer_invert
    /\ rf_path' = t.rf_path
    /\ first_if' = t.first_if
    /\ second_if' = t.second_if
    /\ baseband_codec' = t.baseband_codec
    /\ baseband_cpld' = t.baseband_cpld
    /\ gpio_not_ant_pwr' = t.gpio_not_ant_pwr
    /\ sampling_frequency' = t.sampling_frequency
    /\ log' = t.log
    /\ invert_assigned' = t.invert_assigned
    /\ last_plan_invert' = t.last_plan_invert
    /\ mixer_writer' = IF MixerWriter(op, arg) = "none" THEN mixer_writer
                       ELSE MixerWriter(op, arg)
    /\ modes_written' =
          (modes_written \/ op \in {"set_direction", "disable", "configure", "enable"})
    /\ last_op' = op
    /\ last_arg' = arg
    /\ prev_op' = last_op
    /\ prev_arg' = last_arg
    /\ ret' = IF op = "set_tuning_frequency" THEN t.ret ELSE TRUE

\* A public call other than init() starts: init() has run once before it.
Ready ==
    /\ initialized
    /\ calls < MaxCalls
    /\ calls' = calls + 1
    /\ UNCHANGED initialized

DoInit ==
    /\ ~initialized
    /\ initialized' = TRUE
    /\ UNCHANGED calls
    /\ \E cpld_invert \in BOOLEAN : Return(init(Entry, cpld_invert), "init", "")

DoSetDirection ==
    /\ Ready
    /\ \E d \in Directions : Return(set_direction(Entry, d), "set_direction", d)

DoSetTuningFrequency ==
    /\ Ready
    /\ \E f \in Frequencies :
          Return(set_tuning_frequency(Entry, f), "set_tuning_frequency", f)

DoSetRfAmp ==
    /\ Ready
    /\ \E b \in BOOLEAN : Return(set_rf_amp(Entry, b), "set_rf_amp", b)

DoSetLnaGain ==
    /\ Ready
    /\ \E db \in Gains : Return(set_lna_gain(Entry, db), "set_lna_gain", db)

DoSetVgaGain ==
    /\ Ready
    /\ \E db \in Gains : Return(set_vga_gain(Entry, db), "set_vga_gain", db)

DoSetTxGain ==
    /\ Ready
    /\ \E db \in Gains : Return(set_tx_gain(Entry, db), "set_tx_gain", db)

DoSetBasebandFilterBandwidth ==
    /\ Ready
    /\ \E bw \in Bandwidths :
          Return(set_baseband_filter_bandwidth(Entry, bw),
                 "set_baseband_filter_bandwidth", bw)

DoSetBasebandRate ==
    /\ Ready
    /\ \E rate \in Rates :
          Return(set_baseband_rate(Entry, rate), "set_baseband_rate", rate)

DoSetAntennaBias ==
    /\ Ready
    /\ \E on \in BOOLEAN : Return(set_antenna_bias(Entry, on), "set_antenna_bias", on)

DoDisable ==
    /\ Ready
    /\ Return(disable(Entry), "disable", "")

DoConfigure ==
    /\ Ready
    /\ \E cfg \in Configurations : Return(configure(Entry, cfg), "configure", cfg)

DoEnable ==
    /\ Ready
    /\ \E cfg \in Configurations : Return(enable(Entry, cfg), "enable", cfg)

Next ==
    \/ DoInit
    \/ DoSetDirection
    \/ DoSetTuningFrequency
    \/ DoSetRfAmp
    \/ DoSetLnaGain
    \/ DoSetVgaGain
    \/ DoSetTxGain
    \/ DoSetBasebandFilterBandwidth
    \/ DoSetBasebandRate
    \/ DoSetAntennaBias
    \/ DoDisable
    \/ DoConfigure
    \/ DoEnable

Spec == Init /\ [][Next]_vars

\* ------------------------------------------------------------- properties
\* Positions of the calls named name in log l, and their arguments.
At(l, name) == {i \in DOMAIN l : l[i][1] = name}
Args(l, name) == {l[i][2] : i \in At(l, name)}

\* The plan of the last call, when that call was set_tuning_frequency.
LastPlan == create(last_arg)
TunedValid == last_op = "set_tuning_frequency" /\ is_valid(LastPlan)
TunedInvalid == last_op = "set_tuning_frequency" /\ ~is_valid(LastPlan)

\* C1: at every call boundary after the first call that assigned mixer_invert
\* or baseband_invert, the inversion bit held by the CPLD equals
\* mixer_invert XOR baseband_invert.
C1_PolarityInvariant ==
    invert_assigned =>
        baseband_cpld.invert = XOR(mixer_invert, baseband_invert)

\* C1 witness: both sources have been assigned TRUE (so the bit is FALSE) and a
\* pass-through setter ran after them.
C1_Witness ==
    /\ invert_assigned /\ mixer_invert /\ baseband_invert
    /\ ~baseband_cpld.invert
    /\ last_op = "set_lna_gain"

\* C2: right after set_direction(d), baseband_invert = (d = Receive), and the
\* call wrote the inversion bit exactly once, as (mixer_invert of the most
\* recent valid plan, FALSE if none) XOR baseband_invert.
C2_SetDirectionPolarity ==
    last_op = "set_direction" =>
        /\ baseband_invert = (last_arg = "Receive")
        /\ Cardinality(At(log, "baseband_cpld.set_invert")) = 1
        /\ Args(log, "baseband_cpld.set_invert")
              = {XOR(last_plan_invert, baseband_invert)}
        /\ baseband_cpld.invert = XOR(last_plan_invert, baseband_invert)

\* C2 witness: set_direction(Transmit) after a plan with mixer_invert set,
\* so the bit written is TRUE XOR FALSE.
C2_Witness ==
    /\ last_op = "set_direction" /\ last_arg = "Transmit"
    /\ last_plan_invert
    /\ baseband_cpld.invert

\* What the hardware and the controller hold.
HwVars ==
    <<direction, baseband_invert, mixer_invert, rf_path, first_if, second_if,
      baseband_codec, baseband_cpld, gpio_not_ant_pwr, sampling_frequency>>

\* C3: set_tuning_frequency(f) with an invalid plan returns false, makes no
\* leaf call and changes nothing the hardware or the controller holds.
C3_InvalidPlanNoOp ==
    [][TunedInvalid' => (ret' = FALSE /\ Len(log') = 1 /\ UNCHANGED HwVars)]_vars

\* C3 witness: an unsupported frequency was refused while the first mixer
\* was enabled, and the mixer is still enabled.
C3_Witness ==
    /\ TunedInvalid /\ ret = FALSE
    /\ first_if.enabled

\* C4 as stated: whenever set_tuning_frequency returns false, the first
\* mixer is disabled on return.
C4_Original ==
    (last_op = "set_tuning_frequency" /\ ret = FALSE) => ~first_if.enabled

\* C4 amended: when set_tuning_frequency returns false, the first mixer is
\* exactly as before the call if the plan was invalid, and enabled iff the
\* plan's first_lo_frequency is non-zero if the plan was valid.
C4_FalseReturnMixerState ==
    [][(last_op' = "set_tuning_frequency" /\ ret' = FALSE) =>
          IF is_valid(LastPlan')
          THEN first_if'.enabled = (LastPlan'.first_lo_frequency # 0)
          ELSE first_if' = first_if]_vars

\* C4 witness: a valid plan with a first LO whose second-IF frequency was
\* refused: the call returned false with the first mixer enabled.
C4_Witness ==
    /\ TunedValid /\ ret = FALSE
    /\ LastPlan.first_lo_frequency # 0
    /\ first_if.enabled

\* C5: after set_tuning_frequency with a valid plan, the first mixer is
\* enabled iff the plan's first_lo_frequency is non-zero, and when enabled it
\* is at that frequency.
C5_FirstMixerFollowsPlan ==
    TunedValid =>
        /\ first_if.enabled = (LastPlan.first_lo_frequency # 0)
        /\ first_if.enabled => first_if.frequency = LastPlan.first_lo_frequency

\* C5 witness: a plan without first LO, tuned right after a plan that had
\* enabled the first mixer at its own frequency.
C5_Witness ==
    /\ TunedValid /\ LastPlan.first_lo_frequency = 0
    /\ prev_op = "set_tuning_frequency"
    /\ create(prev_arg).first_lo_frequency # 0
    /\ first_if.frequency = create(prev_arg).first_lo_frequency
    /\ ~first_if.enabled

\* C6: with a valid plan, set_tuning_frequency asks the second IF exactly
\* once to set the plan's second_lo_frequency, and returns what the second
\* IF answered.
C6_ResultIsSecondIf ==
    TunedValid =>
        /\ Cardinality(At(log, "second_if.set_frequency")) = 1
        /\ Args(log, "second_if.set_frequency") = {LastPlan.second_lo_frequency}
        /\ ret = lo_in_range(LastPlan.second_lo_frequency)

\* C6 witness: a valid plan accepted by the second IF, which now holds the
\* plan's second LO.
C6_Witness ==
    /\ TunedValid /\ ret = TRUE
    /\ second_if.frequency = LastPlan.second_lo_frequency

\* C7 as stated: after set_tuning_frequency with a valid plan, the inversion
\* bit written is plan.mixer_invert XOR (current direction = Receive), the
\* initial direction included.
C7_Claim ==
    TunedValid =>
        /\ Args(log, "baseband_cpld.set_invert")
              = {XOR(LastPlan.mixer_invert, direction = "Receive")}
        /\ baseband_cpld.invert = XOR(LastPlan.mixer_invert, direction = "Receive")

\* C8: after disable(), antenna bias is off (gate high), the codec is in
\* Shutdown, the second IF in Standby, the first mixer disabled and the RF
\* amplifier off.
C8_DisableQuiesces ==
    last_op = "disable" =>
        /\ gpio_not_ant_pwr = 1
        /\ baseband_codec.mode = "Shutdown"
        /\ second_if.mode = "Standby"
        /\ ~first_if.enabled
        /\ ~rf_path.rf_amp

\* C8 witness: disable() right after enable() had tuned a plan with a first
\* LO and switched the RF amplifier on.
C8_Witness ==
    /\ last_op = "disable" /\ prev_op = "enable"
    /\ is_valid(create(prev_arg.tuning_frequency))
    /\ create(prev_arg.tuning_frequency).first_lo_frequency # 0
    /\ prev_arg.rf_amp
    /\ ~first_if.enabled /\ ~rf_path.rf_amp

\* The stage mode that goes with a direction.
ModeOf(d) == IF d = "Transmit" THEN "Transmit" ELSE "Receive"

\* C9: after set_direction(d), the second IF and the codec are in the mode of
\* d, the RF path has been given d and the stored direction is d.
C9_SetDirectionModes ==
    last_op = "set_direction" =>
        /\ second_if.mode = ModeOf(last_arg)
        /\ baseband_codec.mode = ModeOf(last_arg)
        /\ Args(log, "rf_path.set_direction") = {last_arg}
        /\ rf_path.direction = last_arg
        /\ direction = last_arg

\* C9 witness: set_direction(Transmit) right after disable() had left the
\* stages in Standby and Shutdown.
C9_Witness ==
    /\ last_op = "set_direction" /\ last_arg = "Transmit"
    /\ prev_op = "disable"
    /\ second_if.mode = "Transmit" /\ baseband_codec.mode = "Transmit"

\* The controller functions configure() calls, as they appear in a log.
SubOperations ==
    {"radio.set_tuning_frequency", "radio.set_rf_amp", "radio.set_lna_gain",
     "radio.set_vga_gain", "radio.set_tx_gain", "radio.set_baseband_rate",
     "radio.set_baseband_filter_bandwidth", "radio.set_antenna_bias",
     "radio.set_direction", "radio.disable", "radio.init"}
IsSubOperation(e) == e[1] \in SubOperations
\* Leaf writes of the tuning and gain steps, and of the direction step.
TuningGainWrites ==
    {"first_if.disable", "first_if.set_frequency", "first_if.enable",
     "second_if.set_frequency", "rf_path.set_band", "rf_path.set_rf_amp",
     "second_if.set_lna_gain", "second_if.set_vga_gain",
     "clock_manager.set_sampling_frequency", "second_if.set_lpf_rf_bandwidth"}
ModeWrites ==
    {"second_if.set_mode", "rf_path.set_direction", "baseband_codec.set_mode"}

\* C10: configure(cfg) and enable(cfg) call set_tuning_frequency, set_rf_amp,
\* set_lna_gain, set_vga_gain, set_baseband_rate,
\* set_baseband_filter_bandwidth, set_direction, in this order, once each and
\* with cfg's values; every tuning and gain write comes before set_direction
\* is entered, every mode write and one inversion write after.
C10_ConfigureOrder ==
    last_op \in {"configure", "enable"} =>
        LET sub == SelectSeq(log, IsSubOperation)
            d == CHOOSE i \in At(log, "radio.set_direction") : TRUE
        IN  /\ [i \in DOMAIN sub |-> sub[i][1]]
                  = <<"radio.set_tuning_frequency", "radio.set_rf_amp",
                      "radio.set_lna_gain", "radio.set_vga_gain",
                      "radio.set_baseband_rate",
                      "radio.set_baseband_filter_bandwidth",
                      "radio.set_direction">>
            /\ sub[1][2] = last_arg.tuning_frequency
            /\ sub[2][2] = last_arg.rf_amp
            /\ sub[3][2] = last_arg.lna_gain
            /\ sub[4][2] = last_arg.vga_gain
            /\ sub[5][2] = last_arg.baseband_rate
            /\ sub[6][2] = last_arg.baseband_filter_bandwidth
            /\ sub[7][2] = last_arg.direction
            /\ \A i \in DOMAIN log :
                  /\ log[i][1] \in TuningGainWrites => i < d
                  /\ log[i][1] \in ModeWrites => i > d
            /\ Cardinality({i \in At(log, "baseband_cpld.set_invert") : i > d}) = 1

\* C10 witness: enable() with a valid plan and direction Transmit has run:
\* the tuning writes and the mode writes are both in its log.
C10_Witness ==
    /\ last_op = "enable" /\ last_arg.direction = "Transmit"
    /\ is_valid(create(last_arg.tuning_frequency))
    /\ At(log, "second_if.set_frequency") # {}
    /\ At(log, "second_if.set_mode") # {}
    /\ second_if.mode = "Transmit"

\* C11: a configure(cfg) that directly follows a configure(cfg) with the same
\* cfg changes nothing the hardware or the controller holds.
C11_ConfigureIdempotent ==
    [][(/\ last_op = "configure" /\ last_op' = "configure"
        /\ last_arg' = last_arg) => UNCHANGED HwVars]_vars

\* C11 witness: configure(cfg) ran twice in a row with a plan that needs the
\* first LO and direction Transmit, after an earlier call.
C11_Witness ==
    /\ last_op = "configure" /\ prev_op = "configure"
    /\ prev_arg = last_arg
    /\ calls = 3
    /\ last_arg.direction = "Transmit"
    /\ create(last_arg.tuning_frequency).first_lo_frequency # 0
    /\ first_if.enabled

\* C12: a set_direction(d) that directly follows a set_direction(d) with the
\* same d changes nothing the hardware or the controller holds, and still
\* writes the inversion bit, both modes and the RF path direction.
C12_SetDirectionIdempotent ==
    [][(/\ last_op = "set_direction" /\ last_op' = "set_direction"
        /\ last_arg' = last_arg) =>
          /\ UNCHANGED HwVars
          /\ Args(log', "baseband_cpld.set_invert") = {baseband_cpld'.invert}
          /\ Args(log', "second_if.set_mode") = {ModeOf(last_arg')}
          /\ Args(log', "rf_path.set_direction") = {last_arg'}
          /\ Args(log', "baseband_codec.set_mode") = {ModeOf(last_arg')}]_vars

\* C12 witness: set_direction(Receive) ran twice in a row after a plan with
\* mixer_invert set, so the bit both calls wrote is TRUE XOR TRUE.
C12_Witness ==
    /\ last_op = "set_direction" /\ prev_op = "set_direction"
    /\ prev_arg = last_arg /\ last_arg = "Receive"
    /\ mixer_invert /\ baseband_invert
    /\ ~baseband_cpld.invert

\* The tuning step of the last call: its frequency, whether its plan was
\* valid, and what set_tuning_frequency returned (configure() drops it).
LastTunes == last_op \in {"set_tuning_frequency", "configure", "enable"}
LastFrequency ==
    IF last_op = "set_tuning_frequency" THEN last_arg
    ELSE last_arg.tuning_frequency
LastTuningValid == LastTunes /\ is_valid(create(LastFrequency))
LastTuningResult ==
    /\ LastTunes
    /\ IF last_op = "set_tuning_frequency" THEN ret
       ELSE /\ is_valid(create(LastFrequency))
            /\ lo_in_range(create(LastFrequency).second_lo_frequency)
LastSetsDirection == last_op \in {"set_direction", "configure", "enable"}

\* C13 as stated: mixer_invert changes only in a call whose tuning step
\* returned true, baseband_invert only in a call that runs set_direction.
C13_Original ==
    [][/\ mixer_invert' # mixer_invert => LastTuningResult'
       /\ baseband_invert' # baseband_invert => LastSetsDirection']_vars

\* C13 amended: mixer_invert changes only in a call whose tuning step had a
\* valid plan, whatever that step returned; baseband_invert changes only in a
\* call that runs set_direction.
C13_InvertWriters ==
    [][/\ mixer_invert' # mixer_invert => LastTuningValid'
       /\ baseband_invert' # baseband_invert => LastSetsDirection']_vars

\* C13 witness: a valid plan whose second-IF frequency was refused returned
\* false and cleared the mixer_invert the plan before it had set.
C13_Witness ==
    /\ TunedValid /\ ret = FALSE
    /\ prev_op = "set_tuning_frequency"
    /\ is_valid(create(prev_arg)) /\ create(prev_arg).mixer_invert
    /\ ~mixer_invert

\* C14: each pass-through setter makes exactly one leaf call, changes exactly
\* the one setting it names to its argument and leaves everything else the
\* hardware and the controller hold unchanged.
C14_PassThroughFrame ==
    [][/\ last_op' \in {"set_rf_amp", "set_lna_gain", "set_vga_gain",
                        "set_tx_gain", "set_baseband_filter_bandwidth",
                        "set_baseband_rate", "set_antenna_bias"}
            => /\ Len(log') = 2
               /\ UNCHANGED <<direction, baseband_invert, mixer_invert, first_if,
                              baseband_codec, baseband_cpld>>
       /\ last_op' = "set_rf_amp"
            => /\ rf_path' = [rf_path EXCEPT !.rf_amp = last_arg']
               /\ UNCHANGED <<second_if, sampling_frequency, gpio_not_ant_pwr>>
       /\ last_op' = "set_lna_gain"
            => /\ second_if' = [second_if EXCEPT !.lna_gain = last_arg']
               /\ UNCHANGED <<rf_path, sampling_frequency, gpio_not_ant_pwr>>
       /\ last_op' = "set_vga_gain"
            => /\ second_if' = [second_if EXCEPT !.vga_gain = last_arg']
               /\ UNCHANGED <<rf_path, sampling_frequency, gpio_not_ant_pwr>>
       /\ last_op' = "set_tx_gain"
            => /\ second_if' = [second_if EXCEPT !.tx_vga_gain = last_arg']
               /\ UNCHANGED <<rf_path, sampling_frequency, gpio_not_ant_pwr>>
       /\ last_op' = "set_baseband_filter_bandwidth"
            => /\ second_if' = [second_if EXCEPT !.lpf_rf_bandwidth = last_arg']
               /\ UNCHANGED <<rf_path, sampling_frequency, gpio_not_ant_pwr>>
       /\ last_op' = "set_baseband_rate"
            => /\ sampling_frequency' = last_arg'
               /\ UNCHANGED <<rf_path, second_if, gpio_not_ant_pwr>>
       /\ last_op' = "set_antenna_bias"
            => /\ gpio_not_ant_pwr' = (IF last_arg' THEN 0 ELSE 1)
               /\ UNCHANGED <<rf_path, second_if, sampling_frequency>>]_vars

\* C14 witness: set_tx_gain(1) ran on a tuned radio in Transmit: the TX VGA
\* gain is 1, the receive VGA gain is still 0 and the first mixer is enabled.
C14_Witness ==
    /\ last_op = "set_tx_gain" /\ last_arg = 1
    /\ second_if.tx_vga_gain = 1 /\ second_if.vga_gain = 0
    /\ second_if.mode = "Transmit"
    /\ first_if.enabled

\* Leaf writes that apply a plan beyond the first mixer.
PlanWrites == {"second_if.set_frequency", "rf_path.set_band", "baseband_cpld.set_invert"}

\* C15: in a set_tuning_frequency call with a valid plan, first_if.disable()
\* is the first leaf call; the first-mixer frequency is written only once,
\* to the plan's first LO and before any enable; enable comes right after it
\* and only if the plan has a first LO; and the second-IF frequency, the band
\* and the inversion bit are written after that.
C15_TuningSequence ==
    TunedValid =>
        LET lo == LastPlan.first_lo_frequency
            setf == At(log, "first_if.set_frequency")
            en == At(log, "first_if.enable")
        IN  /\ log[2][1] = "first_if.disable"
            /\ At(log, "first_if.disable") = {2}
            /\ setf = (IF lo # 0 THEN {3} ELSE {})
            /\ Args(log, "first_if.set_frequency") = (IF lo # 0 THEN {lo} ELSE {})
            /\ en = (IF lo # 0 THEN {4} ELSE {})
            /\ \A i \in DOMAIN log :
                  log[i][1] \in PlanWrites => i > (IF lo # 0 THEN 4 ELSE 2)

\* C15 witness: a plan with first LO 1 tuned right after a plan that had left
\* the first mixer enabled at another frequency.
C15_Witness ==
    /\ TunedValid /\ LastPlan.first_lo_frequency # 0
    /\ prev_op = "set_tuning_frequency"
    /\ create(prev_arg).first_lo_frequency # 0
    /\ create(prev_arg).first_lo_frequency # LastPlan.first_lo_frequency
    /\ first_if.enabled
    /\ first_if.frequency = LastPlan.first_lo_frequency

\* C16: when the plan is valid and the second IF refuses its frequency,
\* set_tuning_frequency returns false with the first mixer disabled and, if
\* the plan has a first LO, enabled again at it, the band set to the plan's,
\* mixer_invert set to the plan's and the inversion bit rewritten as
\* mixer_invert XOR baseband_invert.
C16_PartialEffectOnFailure ==
    (TunedValid /\ ~lo_in_range(LastPlan.second_lo_frequency)) =>
        /\ ret = FALSE
        /\ At(log, "first_if.disable") # {}
        /\ first_if.enabled = (LastPlan.first_lo_frequency # 0)
        /\ first_if.enabled => first_if.frequency = LastPlan.first_lo_frequency
        /\ Args(log, "rf_path.set_band") = {LastPlan.rf_path_band}
        /\ rf_path.band = LastPlan.rf_path_band
        /\ mixer_invert = LastPlan.mixer_invert
        /\ Args(log, "baseband_cpld.set_invert")
              = {XOR(LastPlan.mixer_invert, baseband_invert)}
        /\ baseband_cpld.invert = XOR(LastPlan.mixer_invert, baseband_invert)

\* C16 witness: after a low-band plan, a high-band plan whose second-IF
\* frequency was refused: false was returned, the band is High and
\* mixer_invert is cleared while the second IF still holds the old frequency.
C16_Witness ==
    /\ TunedValid /\ ret = FALSE
    /\ prev_op = "set_tuning_frequency"
    /\ is_valid(create(prev_arg)) /\ create(prev_arg).rf_path_band = "Low"
    /\ rf_path.band = "High"
    /\ second_if.frequency = create(prev_arg).second_lo_frequency
    /\ baseband_cpld.invert = baseband_invert

\* C17: disable() writes, in this order and once each, antenna bias off,
\* codec Shutdown, second IF Standby, first mixer disabled, RF amplifier off,
\* and changes nothing else: direction, mixer_invert, baseband_invert, the
\* inversion bit, the band, the RF path direction, the frequencies, the
\* gains, the filter bandwidth and the sampling rate stay.
C17_DisableOrderAndFrame ==
    [][last_op' = "disable" =>
          /\ log' = << <<"radio.disable", "">>,
                       <<"radio.set_antenna_bias", FALSE>>,
                       <<"gpio_not_ant_pwr.write", 1>>,
                       <<"baseband_codec.set_mode", "Shutdown">>,
                       <<"second_if.set_mode", "Standby">>,
                       <<"first_if.disable", "">>,
                       <<"radio.set_rf_amp", FALSE>>,
                       <<"rf_path.set_rf_amp", FALSE>> >>
          /\ UNCHANGED <<direction, mixer_invert, baseband_invert, baseband_cpld,
                         sampling_frequency>>
          /\ rf_path' = [rf_path EXCEPT !.rf_amp = FALSE]
          /\ first_if' = [first_if EXCEPT !.enabled = FALSE]
          /\ second_if' = [second_if EXCEPT !.mode = "Standby"]]_vars

\* C17 witness: disable() ran on a radio configured for Receive in the low
\* band: the plan's frequencies, the band, the gain and both invert flags are
\* still there.
C17_Witness ==
    /\ last_op = "disable"
    /\ mixer_invert /\ baseband_invert /\ ~baseband_cpld.invert
    /\ rf_path.band = "Low" /\ second_if.frequency = 3 /\ first_if.frequency = 4
    /\ second_if.lna_gain = 1
    /\ second_if.mode = "Standby"

\* C18: a configure(cfg) or enable(cfg) whose tuning step returns false still
\* applies cfg's rf_amp, lna_gain, vga_gain, baseband_rate,
\* baseband_filter_bandwidth and direction; the inversion bit is then
\* m XOR (cfg.direction = Receive), m being the plan's mixer_invert if the
\* plan was valid and the mixer_invert stored before the call otherwise.
C18_ConfigureIgnoresTuningResult ==
    [][(last_op' \in {"configure", "enable"} /\ ~LastTuningResult') =>
          LET cfg == last_arg'
              plan == create(cfg.tuning_frequency)
              m == IF is_valid(plan) THEN plan.mixer_invert ELSE mixer_invert
          IN  /\ rf_path'.rf_amp = cfg.rf_amp
              /\ second_if'.lna_gain = cfg.lna_gain
              /\ second_if'.vga_gain = cfg.vga_gain
              /\ sampling_frequency' = cfg.baseband_rate
              /\ second_if'.lpf_rf_bandwidth = cfg.baseband_filter_bandwidth
              /\ direction' = cfg.direction
              /\ rf_path'.direction = cfg.direction
              /\ second_if'.mode = ModeOf(cfg.direction)
              /\ baseband_codec'.mode = ModeOf(cfg.direction)
              /\ mixer_invert' = m
              /\ baseband_cpld'.invert = XOR(m, cfg.direction = "Receive")]_vars

\* C18 witness: configure() with an unsupported frequency and direction
\* Transmit ran while mixer_invert was stored as TRUE: the stages are in
\* Transmit and the bit is TRUE XOR FALSE.
C18_Witness ==
    /\ last_op = "configure"
    /\ ~is_valid(create(last_arg.tuning_frequency))
    /\ last_arg.direction = "Transmit"
    /\ mixer_invert /\ baseband_cpld.invert
    /\ second_if.mode = "Transmit" /\ baseband_codec.mode = "Transmit"
    /\ second_if.vga_gain = last_arg.vga_gain

\* C19: once disable() or a tuning step with a valid plan has run, the first
\* mixer is enabled iff the most recent of them was a tuning step whose plan
\* has a first LO; no other call enables or disables it.
C19_MixerFollowsLastWriter ==
    mixer_writer # "none" =>
        first_if.enabled = (mixer_writer = "tuned_with_first_lo")

\* C19 witness: a plan with a first LO was tuned, disable() ran, then
\* set_direction put the second IF and the codec back into an active mode
\* while the first mixer, still holding the plan's LO, stays disabled.
C19_Witness ==
    /\ last_op = "set_direction" /\ prev_op = "disable"
    /\ mixer_writer = "disable"
    /\ first_if.frequency # 0 /\ ~first_if.enabled
    /\ second_if.mode = ModeOf(direction)
    /\ baseband_codec.mode = ModeOf(direction)

\* C20: once set_direction() or disable() has run, the second IF and the
\* codec are in (Receive, Receive), (Transmit, Transmit) or
\* (Standby, Shutdown); in the first two the mode is that of the stored
\* direction, which is also the direction the RF path holds.
C20_ModesCorrespond ==
    modes_written =>
        /\ <<second_if.mode, baseband_codec.mode>>
              \in {<<"Receive", "Receive">>, <<"Transmit", "Transmit">>,
                   <<"Standby", "Shutdown">>}
        /\ second_if.mode \in {"Receive", "Transmit"} =>
              /\ second_if.mode = ModeOf(direction)
              /\ rf_path.direction = direction

\* C20 witness: a plan with a first LO was tuned after disable(): the second
\* IF and the codec are still in Standby and Shutdown with the first mixer on.
C20_Witness ==
    /\ modes_written
    /\ last_op = "set_tuning_frequency" /\ prev_op = "disable"
    /\ second_if.mode = "Standby" /\ baseband_codec.mode = "Shutdown"
    /\ first_if.enabled

====
